---- MODULE Spec2Model ----
(***************************************************************************)
(* Model of the retrieval-augmented answer pipeline of ai-joe:             *)
(*   src/main.py   chunker, embedder with retry, ingestion, retrieval      *)
(*   src/ui/qa.py  date normalizer, prompt assembly, answer()              *)
(*   src/app.py    chat_with_joe                                           *)
(***************************************************************************)
EXTENDS Integers, Sequences, FiniteSets, TLC

(***************************************************************************)
(* Bounds of the model.                                                    *)
(***************************************************************************)
MaxTextLen == 6        \* longest text handed to split_text
MaxChunkSize == 3      \* largest chunk_size / overlap tried

Chars == {"a", "b"}

Min(a, b) == IF a < b THEN a ELSE b

\* Python's text[lo:hi] for 0 <= lo, on a sequence (0-based, half-open).
Slice(s, lo, hi) == SubSeq(s, lo + 1, Min(hi, Len(s)))

RECURSIVE SeqsUpTo(_)
SeqsUpTo(k) ==
    IF k = 0 THEN {<<>>}
    ELSE LET shorter == SeqsUpTo(k - 1)
         IN  shorter \cup {Append(s, c) : s \in {t \in shorter : Len(t) = k - 1}, c \in Chars}

VARIABLES
    \* ---- split_text (src/main.py:107-120) ----
    text,         \* the argument text
    chunk_size,   \* the argument chunk_size
    overlap,      \* the argument overlap
    start,        \* local start
    chunks,       \* local chunks
    split_pc,     \* "idle" | "loop" | "returned"
    \* ---- _normalize_dates_in_context (src/ui/qa.py:76-178) ----
    dn_input,     \* the argument text, as its whitespace-separated words
    dn_text,      \* local text, rewritten by each re.sub in turn
    today,        \* local today: <<year, month, day>>, or <<>> before line 82
    dn_pc,        \* "idle" | "today" | "rule1" .. "rule5" | "done" | "raised"
    \* ---- the post-processing of answer() (src/ui/qa.py:286-292) ----
    san_raw,      \* local raw_text: the provider's output, as words and line breaks
    san_text,     \* local text, rewritten by each pass in turn
    san_prev,     \* the text the latest pass was given
    san_pc,       \* "idle" | "strip_meta" | "first_person" | "fix_tense" | "returned"
    \* ---- the process: import of ui/qa.py, then answer() calls ----
    pc,           \* control position of the process
    env,          \* what the process finds outside itself: docs directory,
                  \* prompt/system.md, the BrainLift file, PROVIDER, the date
    store,        \* the persistent Chroma collection: its records, in add order
    next_id,      \* number of ids uuid.uuid4() has handed out
    ing,          \* ingest_docs_to_chroma locals: existing, all_chunks, ids, metadatas
    emb,          \* embed_texts locals: caller, texts, batch, attempt, vectors, status
    emb_log,      \* the embedding-service calls and sleeps of the current embed_texts call
    loaded,       \* module globals _BASE_SYSTEM and _BRAINLIFT
    call,         \* the answer() call in progress: message, history, results
    last,         \* the latest answer() call that returned (what it was given,
                  \* what it sent and what it returned) or that raised in
                  \* its date normalization
    restarts      \* number of process restarts so far

splitVars == <<text, chunk_size, overlap, start, chunks, split_pc>>
dateVars == <<dn_input, dn_text, today, dn_pc>>
sanVars == <<san_raw, san_text, san_prev, san_pc>>
sysVars == <<pc, env, store, next_id, ing, emb, emb_log, loaded, call, last, restarts>>

vars == <<splitVars, dateVars, sanVars, sysVars>>

(***************************************************************************)
(* split_text, one action per loop iteration.                              *)
(***************************************************************************)
\* a window one character short
WindowEndShort(s, c, n) == Min(s + c - 1, n)
\* line 112: end = min(start + chunk_size, n)
WindowEnd(s, c, n) == Min(s + c, n)

\* the next window starting where the last one ended
NextStartNoOverlap(end, o) == end
\* lines 117-119: start = end - overlap; if start < 0: start = 0
NextStart(end, o) == IF end - o < 0 THEN 0 ELSE end - o

\* The loop is cut off once it has produced more chunks than any advancing
\* configuration can (one per character at most): a longer run is one that
\* does not advance.
MaxIter == MaxTextLen + 2

SplitIdle ==
    /\ text = <<>> /\ chunk_size = 1 /\ overlap = 0
    /\ start = 0 /\ chunks = <<>> /\ split_pc = "idle"

\* lines 107-110: the call, with its arguments drawn from the bounded sets
SplitInit ==
    /\ text \in SeqsUpTo(MaxTextLen)
    /\ chunk_size \in 0..MaxChunkSize
    /\ overlap \in 0..MaxChunkSize
    /\ start = 0
    /\ chunks = <<>>
    /\ split_pc = "loop"

\* lines 111-119: one pass through the body of `while start < n`
split_text_iter ==
    /\ split_pc = "loop"
    /\ start < Len(text)
    /\ Len(chunks) < MaxIter
    /\ LET n == Len(text)
           end == WindowEnd(start, chunk_size, n)
       IN  /\ chunks' = Append(chunks, Slice(text, start, end))
           /\ IF end = n
              THEN /\ split_pc' = "returned"
                   /\ start' = start
              ELSE /\ split_pc' = "loop"
                   /\ start' = NextStart(end, overlap)
    /\ UNCHANGED <<text, chunk_size, overlap>>
    /\ UNCHANGED <<dateVars, sanVars, sysVars>>

\* line 111 false on entry, line 120: return chunks
split_text_exit ==
    /\ split_pc = "loop"
    /\ ~(start < Len(text))
    /\ split_pc' = "returned"
    /\ UNCHANGED <<text, chunk_size, overlap, start, chunks>>
    /\ UNCHANGED <<dateVars, sanVars, sysVars>>

DateIdle == dn_input = <<>> /\ dn_text = <<>> /\ today = <<>> /\ dn_pc = "idle"

SanIdle == san_raw = <<>> /\ san_text = <<>> /\ san_prev = <<>> /\ san_pc = "idle"

NoCall == [message |-> <<>>, history |-> <<>>, results |-> <<>>]
NoAnswer == [kind |-> "none"]
NoEmbed == [caller |-> "none", texts |-> <<>>, batch |-> 0, attempt |-> 0,
            vectors |-> <<>>, status |-> "idle"]
\* existing is <<>> while the local is unbound, <<n>> once line 173 has bound it
NoIngest == [existing |-> <<>>, all_chunks |-> <<>>, ids |-> <<>>, metadatas |-> <<>>]

SysIdle ==
    /\ pc = "idle"
    /\ env = [docs |-> <<>>, persona |-> [exists |-> FALSE], brainlift |-> <<>>,
              provider |-> "anthropic", date |-> <<2024, 6, 10>>]
    /\ store = <<>> /\ next_id = 0
    /\ ing = NoIngest /\ emb = NoEmbed /\ emb_log = <<>>
    /\ loaded = [base_system |-> <<>>, brainlift |-> <<>>]
    /\ call = NoCall /\ last = NoAnswer
    /\ restarts = 0

InitSplit == SplitInit /\ DateIdle /\ SanIdle /\ SysIdle
NextSplit == split_text_iter \/ split_text_exit
SpecSplit == InitSplit /\ [][NextSplit]_vars

(***************************************************************************)
(* Chunker claims.                                                         *)
(***************************************************************************)
ValidConfig == chunk_size > overlap /\ overlap >= 0
Returned == split_pc = "returned"
Stride == chunk_size - overlap

\* Drop the first k elements of a sequence.
Drop(s, k) == SubSeq(s, k + 1, Len(s))

RECURSIVE Residues(_, _, _)
\* chunk 1 whole, then every later chunk without its first o characters
Residues(cs, o, i) ==
    IF i > Len(cs) THEN <<>>
    ELSE (IF i = 1 THEN cs[i] ELSE Drop(cs[i], o)) \o Residues(cs, o, i + 1)

\* C6 (as claimed): with chunk_size <= overlap split_text never returns a
\* list normally and never piles up more chunks than the text has characters;
\* it is rejected with a configuration error instead.
C6_NonAdvancingRejected ==
    chunk_size <= overlap =>
        /\ split_pc # "returned"
        /\ Len(chunks) <= Len(text)

\* C7: for a valid configuration the returned chunks are the sliding windows
\* text[i*(C-O) : min(i*(C-O)+C, N)]; adjacent chunks share exactly O
\* characters, the residues reconstruct the text and the last chunk ends at N.
C7_SlidingWindows ==
    (Returned /\ ValidConfig) =>
        LET N == Len(text) K == Len(chunks) IN
        /\ \A i \in 1..K :
              chunks[i] = Slice(text, (i - 1) * Stride, Min((i - 1) * Stride + chunk_size, N))
        /\ \A i \in 1..(K - 1) :
              /\ Len(chunks[i]) = chunk_size
              /\ Len(chunks[i + 1]) > overlap
              /\ Drop(chunks[i], Stride) = SubSeq(chunks[i + 1], 1, overlap)
        /\ Residues(chunks, overlap, 1) = text
        /\ K > 0 => (K - 1) * Stride + Len(chunks[K]) = N

C7_Witness ==
    /\ Returned /\ ValidConfig
    /\ overlap >= 1
    /\ Len(chunks) >= 3
    /\ Len(chunks[Len(chunks)]) < chunk_size

CeilDiv(a, b) == (a + b - 1) \div b

\* C8 (as claimed): the number of chunks is ceil((N-O)/(C-O)) when N > C,
\* else 1.
C8_ChunkCountOriginal ==
    (Returned /\ ValidConfig) =>
        Len(chunks) = IF Len(text) > chunk_size
                      THEN CeilDiv(Len(text) - overlap, Stride)
                      ELSE 1

\* C8 (amended): the number of chunks is ceil((N-O)/(C-O)) when N > C, 1 when
\* 0 < N <= C, and 0 for the empty text.
C8_ChunkCount ==
    (Returned /\ ValidConfig) =>
        Len(chunks) = IF Len(text) > chunk_size
                      THEN CeilDiv(Len(text) - overlap, Stride)
                      ELSE IF Len(text) = 0 THEN 0 ELSE 1

C8_Witness ==
    /\ Returned /\ ValidConfig
    /\ Len(text) > chunk_size
    /\ overlap >= 1
    /\ (Len(text) - overlap) % Stride # 0
    /\ Len(chunks) >= 2

(***************************************************************************)
(* _normalize_dates_in_context (src/ui/qa.py:61-178).                      *)
(* A text is the sequence of its whitespace-separated words; every pattern *)
(* of the function starts and ends at a word boundary and crosses words    *)
(* only through \s+, so a match is a run of whole words.                   *)
(***************************************************************************)
MaxWords == 3          \* longest text (in words) handed to the normalizer

\* _MONTHS, lines 61-74
_MONTHS ==
    [january |-> 1, jan |-> 1, february |-> 2, feb |-> 2, march |-> 3, mar |-> 3,
     april |-> 4, apr |-> 4, may |-> 5, june |-> 6, jun |-> 6, july |-> 7, jul |-> 7,
     august |-> 8, aug |-> 8, september |-> 9, sep |-> 9, sept |-> 9,
     october |-> 10, oct |-> 10, november |-> 11, nov |-> 11, december |-> 12, dec |-> 12]

\* the month alternation of the four patterns, lines 141-142, 147-148, 153-154, 160-161
MonthWords == DOMAIN _MONTHS

\* strftime("%B"), lines 168 and 173
MonthName ==
    <<"January", "February", "March", "April", "May", "June", "July",
      "August", "September", "October", "November", "December">>

\* str.lower() on the words the model uses (the capitalised ones are the
\* words the rules themselves write, and "June" of the input vocabulary)
Lower(w) ==
    CASE w = "May" -> "may"
      [] w = "June" -> "june"
      [] w = "July" -> "july"
      [] w = "Will" -> "will"
      [] w = "Here's" -> "here's"
      [] OTHER -> w

\* str.capitalize() of a lower-cased month word, lines 96, 109, 121, 135
Capitalize(w) ==
    CASE w = "may" -> "May"
      [] w = "june" -> "June"
      [] w = "july" -> "July"
      [] OTHER -> w

\* (\d{1,2})(?:st|nd|rd|th)?\b then int(m.group(2)), lines 155 and 103:
\* the day words of the model and their values
DayValue == [w \in {"1", "10th", "31"} |-> CASE w = "1" -> 1 [] w = "10th" -> 10 [] OTHER -> 31]
DayWords == DOMAIN DayValue

\* str(day) followed by the comma of the f-string of line 109
DayComma(d) == CASE d = 1 -> "1," [] d = 10 -> "10," [] OTHER -> "31,"

\* str(year) in the f-strings
YearWord(y) == CASE y = 2024 -> "2024" [] OTHER -> "2025"

IsLeap(y) == (y % 4 = 0 /\ y % 100 # 0) \/ y % 400 = 0
DaysInMonth(y, m) ==
    CASE m \in {4, 6, 9, 11} -> 30
      [] m = 2 -> IF IsLeap(y) THEN 29 ELSE 28
      [] OTHER -> 31

\* datetime(year, m_num, day) does not raise
ValidDate(y, m, d) == m \in 1..12 /\ d >= 1 /\ d <= DaysInMonth(y, m)

\* date.__lt__
DateLess(a, b) ==
    \/ a[1] < b[1]
    \/ a[1] = b[1] /\ a[2] < b[2]
    \/ a[1] = b[1] /\ a[2] = b[2] /\ a[3] < b[3]

\* mark_past, lines 85-86
mark_past(dt, td) == IF DateLess(dt, td) THEN <<"(past)">> ELSE <<>>

IsMonthAt(ws, i) == i <= Len(ws) /\ Lower(ws[i]) \in MonthWords

\* repl_month, lines 89-98, and repl_by_month, lines 114-123 (the same body)
repl_month(ws, i, td) ==
    LET mon == Lower(ws[i + 1])
        m_num == _MONTHS[mon]
    IN  <<Capitalize(mon), YearWord(td[1])>> \o mark_past(<<td[1], m_num, 1>>, td)

\* repl_month_day, lines 101-111
repl_month_day(ws, i, td) ==
    LET mon == Lower(ws[i + 1])
        day == DayValue[ws[i + 2]]
        m_num == _MONTHS[mon]
    IN  IF ValidDate(td[1], m_num, day)
        THEN <<Capitalize(mon), DayComma(day), YearWord(td[1])>>
                 \o mark_past(<<td[1], m_num, day>>, td)
        ELSE SubSeq(ws, i, i + 2)

\* line 132
approx_day(qual) ==
    CASE qual = "early" -> 5 [] qual = "mid" -> 15 [] qual = "late" -> 25
      [] qual = "end" -> 28 [] OTHER -> 15

\* repl_qualifier, lines 126-137
repl_qualifier(ws, i, td) ==
    LET qual == Lower(ws[i])
        mon == Lower(ws[i + 1])
        m_num == _MONTHS[mon]
    IN  <<qual, Capitalize(mon), YearWord(td[1])>>
            \o mark_past(<<td[1], m_num, approx_day(qual)>>, td)

\* The number of words the pattern of a rule matches at word i (0: no match).
\*   rule 1, lines 140-144:  \b(?:this|in)\s+(<month>)\b
\*   rule 2, lines 145-150:  \b(?:by|before|until)\s+(<month>)\b
\*   rule 3, lines 151-157:  \b(?:by|on|before)\s+(<month>)\s+(\d{1,2})(?:st|nd|rd|th)?\b
\*   rule 4, lines 158-163:  \b(early|mid|late|end)\s+(<month>)\b
MatchLen(rule, ws, i) ==
    CASE rule = 1 ->
            IF Lower(ws[i]) \in {"this", "in"} /\ IsMonthAt(ws, i + 1) THEN 2 ELSE 0
      [] rule = 2 ->
            IF Lower(ws[i]) \in {"by", "before", "until"} /\ IsMonthAt(ws, i + 1) THEN 2 ELSE 0
      [] rule = 3 ->
            IF /\ Lower(ws[i]) \in {"by", "on", "before"}
               /\ IsMonthAt(ws, i + 1)
               /\ i + 2 <= Len(ws)
               /\ ws[i + 2] \in DayWords
            THEN 3 ELSE 0
      [] OTHER ->
            IF Lower(ws[i]) \in {"early", "mid", "late", "end"} /\ IsMonthAt(ws, i + 1) THEN 2 ELSE 0

Replacement(rule, ws, i, td) ==
    CASE rule = 1 -> repl_month(ws, i, td)
      [] rule = 2 -> repl_month(ws, i, td)
      [] rule = 3 -> repl_month_day(ws, i, td)
      [] OTHER -> repl_qualifier(ws, i, td)

RECURSIVE ReSub(_, _, _, _)
\* re.sub(pattern, repl, text, flags=re.IGNORECASE): the leftmost matches, left
\* to right, none overlapping, the replacements not scanned again
ReSub(rule, ws, i, td) ==
    IF i > Len(ws) THEN <<>>
    ELSE LET k == MatchLen(rule, ws, i)
         IN  IF k = 0
             THEN <<ws[i]>> \o ReSub(rule, ws, i + 1, td)
             ELSE Replacement(rule, ws, i, td) \o ReSub(rule, ws, i + k, td)

RECURSIVE SubPair(_, _, _, _, _)
\* re.sub(r"\b<w1> <w2>\b", repl, text, flags=re.IGNORECASE), lines 170 and 174
SubPair(w1, w2, repl, ws, i) ==
    IF i > Len(ws) THEN <<>>
    ELSE IF i + 1 <= Len(ws) /\ Lower(ws[i]) = w1 /\ Lower(ws[i + 1]) = w2
         THEN repl \o SubPair(w1, w2, repl, ws, i + 2)
         ELSE <<ws[i]>> \o SubPair(w1, w2, repl, ws, i + 1)

\* lines 168 and 172-173: today.strftime("%B %Y") and the same for the first
\* day of the month after today's
cur_abs(td) == <<MonthName[td[2]], YearWord(td[1])>>
nxt_abs(td) ==
    IF td[2] = 12 THEN <<MonthName[1], YearWord(td[1] + 1)>>
    ELSE <<MonthName[td[2] + 1], YearWord(td[1])>>

\* the rules in the order the function applies them, lines 140-163
RuleOrder == <<1, 2, 3, 4>>

\* what _today_dt().date() can return, lines 56-59 and 82
Todays == {<<2024, 6, 10>>, <<2024, 6, 28>>, <<2024, 6, 29>>}

Vocabulary ==
    {"by", "on", "this", "next", "month", "end", "mid", "of",
     "may", "June", "july", "1", "10th", "31"}

RECURSIVE WordSeqs(_)
WordSeqs(k) ==
    IF k = 0 THEN {<<>>}
    ELSE LET shorter == WordSeqs(k - 1)
         IN  shorter \cup {Append(s, w) : s \in {t \in shorter : Len(t) = k - 1},
                                          w \in Vocabulary}

\* the call, with its argument drawn from the bounded set
DateInit ==
    /\ dn_input \in WordSeqs(MaxWords)
    /\ dn_text = dn_input
    /\ today = <<>>
    /\ dn_pc = "today"

\* lines 82-83: today = _today_dt().date(); year = today.year
dn_read_today ==
    /\ dn_pc = "today"
    /\ today' \in Todays
    /\ dn_pc' = "rule1"
    /\ UNCHANGED <<dn_input, dn_text>>
    /\ UNCHANGED <<splitVars, sanVars, sysVars>>

\* line 82, _today_dt lines 57-58: ZoneInfo(tzname) raises (the zone name or
\* the time-zone data is missing); nothing in _today_dt or around line 82
\* catches it, and the exception leaves _normalize_dates_in_context
dn_today_raises ==
    /\ dn_pc = "today"
    /\ dn_pc' = "raised"
    /\ UNCHANGED <<dn_input, dn_text, today>>
    /\ UNCHANGED <<splitVars, sanVars, sysVars>>

\* lines 140-163: the four re.sub calls, one per step
dn_apply_rule ==
    /\ dn_pc \in {"rule1", "rule2", "rule3", "rule4"}
    /\ LET k == CASE dn_pc = "rule1" -> 1 [] dn_pc = "rule2" -> 2
                  [] dn_pc = "rule3" -> 3 [] OTHER -> 4
       IN  /\ dn_text' = ReSub(RuleOrder[k], dn_text, 1, today)
           /\ dn_pc' = CASE k = 1 -> "rule2" [] k = 2 -> "rule3"
                         [] k = 3 -> "rule4" [] OTHER -> "rule5"
    /\ UNCHANGED <<dn_input, today>>
    /\ UNCHANGED <<splitVars, sanVars, sysVars>>

\* lines 166-178: "this month" / "next month", then return text
dn_this_next_month ==
    /\ dn_pc = "rule5"
    /\ dn_text' = SubPair("next", "month", nxt_abs(today),
                          SubPair("this", "month", cur_abs(today), dn_text, 1), 1)
    /\ dn_pc' = "done"
    /\ UNCHANGED <<dn_input, today>>
    /\ UNCHANGED <<splitVars, sanVars, sysVars>>

InitDates == DateInit /\ SplitIdle /\ SanIdle /\ SysIdle
NextDates == dn_read_today \/ dn_today_raises \/ dn_apply_rule \/ dn_this_next_month
SpecDates == InitDates /\ [][NextDates]_vars

(***************************************************************************)
(* Date normalizer claims.                                                 *)
(***************************************************************************)
DnDone == dn_pc = "done"

\* C9 (as claimed): a phrase "by|on|before <Month> <Day>" with a valid day is
\* rewritten as a whole to "<Month> <Day>, <year>", with " (past)" appended
\* iff that date precedes today; on 2024-06-10 "by May 1" gives
\* "May 1, 2024 (past)" and "by July" gives "July 2024".
C9_MonthDayWhole ==
    DnDone =>
        /\ (/\ Len(dn_input) = 3
            /\ Lower(dn_input[1]) \in {"by", "on", "before"}
            /\ Lower(dn_input[2]) \in MonthWords
            /\ dn_input[3] \in DayWords
            /\ ValidDate(today[1], _MONTHS[Lower(dn_input[2])], DayValue[dn_input[3]]))
           => dn_text =
                <<Capitalize(Lower(dn_input[2])), DayComma(DayValue[dn_input[3]]),
                  YearWord(today[1])>>
                \o (IF DateLess(<<today[1], _MONTHS[Lower(dn_input[2])],
                                  DayValue[dn_input[3]]>>, today)
                    THEN <<"(past)">> ELSE <<>>)
        /\ (today = <<2024, 6, 10>> /\ dn_input = <<"by", "may", "1">>)
           => dn_text = <<"May", "1,", "2024", "(past)">>
        /\ (today = <<2024, 6, 10>> /\ dn_input = <<"by", "july">>)
           => dn_text = <<"July", "2024">>

\* C10 (as claimed): on 2024-06-10 "end of June" becomes "end June 2024", and
\* a qualifier phrase "<early|mid|late|end> <Month>" gets " (past)" iff its
\* approximated date (5, 15, 25, 28) is strictly earlier than today.
C10_QualifierPhrases ==
    DnDone =>
        /\ (today = <<2024, 6, 10>> /\ dn_input = <<"end", "of", "June">>)
           => dn_text = <<"end", "June", "2024">>
        /\ (/\ Len(dn_input) = 2
            /\ Lower(dn_input[1]) \in {"early", "mid", "late", "end"}
            /\ Lower(dn_input[2]) \in MonthWords)
           => dn_text =
                <<Lower(dn_input[1]), Capitalize(Lower(dn_input[2])), YearWord(today[1])>>
                \o (IF DateLess(<<today[1], _MONTHS[Lower(dn_input[2])],
                                  approx_day(Lower(dn_input[1]))>>, today)
                    THEN <<"(past)">> ELSE <<>>)

(***************************************************************************)
(* The process: import of ui/qa.py (ingestion, prompt files), then         *)
(* answer() calls, with restarts over the persistent store.                *)
(***************************************************************************)
IngestChunkSize == 3   \* chunk size of the ingestion, scaled down from 1200
IngestOverlap == 1     \* overlap of the ingestion, scaled down from 200
EmbedBatchSize == 2    \* EMBED_BATCH_SIZE, scaled down from 64
TopK == 2              \* top_k of answer(), scaled down from 6
MaxRestarts == 1       \* restarts of the process within one behaviour

\* range(5), src/main.py:153
MaxAttempts == 5

RECURSIVE split_text(_, _, _, _, _)
\* split_text as a function: the loop of lines 111-119 run to its return
split_text(txt, c, o, s, acc) ==
    IF ~(s < Len(txt)) THEN acc
    ELSE LET end == WindowEnd(s, c, Len(txt))
             acc2 == Append(acc, Slice(txt, s, end))
         IN  IF end = Len(txt) THEN acc2
             ELSE split_text(txt, c, o, NextStart(end, o), acc2)

\* the files glob finds under DOCS_DIR, *.txt before *.md (lines 180-182)
FileA == [name |-> "a.txt", raw |-> <<"ships", "by", "may", "1">>]
FileB == [name |-> "b.md", raw |-> <<"end", "of", "June">>]
DocsDirs == {<<>>, <<FileA>>, <<FileA, FileB>>}

\* prompt/system.md: missing, unreadable, or its content (" " is a run of
\* whitespace)
PersonaFiles ==
    {[exists |-> FALSE],
     [exists |-> TRUE, readable |-> FALSE],
     [exists |-> TRUE, readable |-> TRUE, content |-> <<>>],
     [exists |-> TRUE, readable |-> TRUE, content |-> <<" ">>],
     [exists |-> TRUE, readable |-> TRUE, content |-> <<"Speak", "as", "Joe.", " ">>]}

\* the BrainLift file: missing (<<>>) or its content
BrainliftFiles == {<<>>, <<"launch", "this", "june", " ">>}

\* the words that are runs of whitespace
IsSpace(w) == w \in {" ", "\n", "\n\n"}

RECURSIVE Strip(_)
\* str.strip()
Strip(ws) ==
    IF ws = <<>> THEN <<>>
    ELSE IF IsSpace(ws[1]) THEN Strip(Tail(ws))
    ELSE IF IsSpace(ws[Len(ws)]) THEN Strip(SubSeq(ws, 1, Len(ws) - 1))
    ELSE ws

InitSys ==
    /\ pc = "ingest"
    /\ env \in [docs : DocsDirs, persona : PersonaFiles, brainlift : BrainliftFiles,
                provider : {"anthropic", "openai"}, date : {<<2024, 6, 10>>}]
    /\ store = <<>> /\ next_id = 0
    /\ ing = NoIngest /\ emb = NoEmbed /\ emb_log = <<>>
    /\ loaded = [base_system |-> <<>>, brainlift |-> <<>>]
    /\ call = NoCall /\ last = NoAnswer
    /\ restarts = 0

\* ---- ingest_docs_to_chroma, src/main.py:170-203 ----

\* lines 172-176: collection.count() answers; return on a populated store
ingest_count ==
    /\ pc = "ingest"
    /\ IF Len(store) > 0
       THEN pc' = "load" /\ ing' = NoIngest
       ELSE pc' = "ingest_files" /\ ing' = [ing EXCEPT !.existing = <<Len(store)>>]
    /\ UNCHANGED <<env, store, next_id, emb, emb_log, loaded, call, last, restarts>>
    /\ UNCHANGED <<splitVars, dateVars, sanVars>>

\* lines 172-178: collection.count() raises; except Exception: pass. existing
\* stays unbound and the function goes on to line 180
ingest_count_raises ==
    /\ pc = "ingest"
    /\ pc' = "ingest_files"
    /\ UNCHANGED <<env, store, next_id, ing, emb, emb_log, loaded, call, last, restarts>>
    /\ UNCHANGED <<splitVars, dateVars, sanVars>>

RECURSIVE ChunksOfFiles(_, _)
\* lines 192-199: for each path, in order, its chunks with source and index
ChunksOfFiles(files, k) ==
    IF k > Len(files) THEN <<>>
    ELSE LET cs == split_text(files[k].raw, IngestChunkSize, IngestOverlap, 0, <<>>)
         IN  [i \in 1..Len(cs) |->
                 [doc |-> cs[i], source |-> files[k].name, chunk_index |-> i - 1]]
             \o ChunksOfFiles(files, k + 1)

\* lines 180-199: glob, the early return, then read and chunk every file
ingest_files ==
    /\ pc = "ingest_files"
    /\ IF env.docs = <<>>
       THEN /\ pc' = "load"
            /\ ing' = NoIngest
            /\ UNCHANGED <<emb, emb_log, next_id>>
       ELSE LET cs == ChunksOfFiles(env.docs, 1) IN
            /\ ing' = [existing |-> ing.existing,
                       all_chunks |-> [i \in 1..Len(cs) |-> cs[i].doc],
                       ids |-> [i \in 1..Len(cs) |-> next_id + i],
                       metadatas |-> [i \in 1..Len(cs) |->
                           [source |-> cs[i].source, chunk_index |-> cs[i].chunk_index]]]
            /\ next_id' = next_id + Len(cs)
            \* line 201: embed_texts(all_chunks) is entered
            /\ emb' = [caller |-> "ingest", texts |-> [i \in 1..Len(cs) |-> cs[i].doc],
                       batch |-> 0, attempt |-> 0, vectors |-> <<>>, status |-> "running"]
            /\ emb_log' = <<>>
            /\ pc' = "embed"
    /\ UNCHANGED <<env, store, loaded, call, last, restarts>>
    /\ UNCHANGED <<splitVars, dateVars, sanVars>>

\* lines 193-194: open() or read() raises; the import of ui/qa.py fails
ingest_files_raises ==
    /\ pc = "ingest_files"
    /\ env.docs # <<>>
    /\ pc' = "crashed"
    /\ UNCHANGED <<env, store, next_id, ing, emb, emb_log, loaded, call, last, restarts>>
    /\ UNCHANGED <<splitVars, dateVars, sanVars>>

\* ---- embed_texts, src/main.py:135-167 ----

\* _batched, lines 135-137: the number of batches and batch b (0-based)
NumBatches(texts) == (Len(texts) + EmbedBatchSize - 1) \div EmbedBatchSize
Batch(texts, b) == Slice(texts, b * EmbedBatchSize, b * EmbedBatchSize + EmbedBatchSize)

\* the embedding the service returns for a text: the same for the same text
Embedding(t) == <<"vec", t>>

\* line 160: wait = 2 ** attempt
Pow2(k) == IF k = 0 THEN 1 ELSE IF k = 1 THEN 2 ELSE IF k = 2 THEN 4
           ELSE IF k = 3 THEN 8 ELSE 16
Backoff(attempt) == Pow2(attempt)

\* the test of line 161 off by one
IsFinalAttemptOffByOne(attempt) == attempt = 5
\* line 161: if attempt == 4
IsFinalAttempt(attempt) == attempt = 4

\* an embedder that writes each batch of an ingestion to the collection as
\* soon as the service has answered for it
embed_call_ok_writing ==
    /\ pc = "embed"
    /\ emb.batch < NumBatches(emb.texts)
    /\ LET b == Batch(emb.texts, emb.batch) IN
       /\ emb' = [emb EXCEPT !.vectors = @ \o [i \in 1..Len(b) |-> Embedding(b[i])],
                             !.batch = @ + 1, !.attempt = 0]
       /\ emb_log' = Append(emb_log, [batch |-> emb.batch, attempt |-> emb.attempt,
                                      outcome |-> "ok", slept |-> 0])
       /\ store' = IF emb.caller = "ingest"
                   THEN store \o [i \in 1..Len(b) |->
                            [id |-> ing.ids[emb.batch * EmbedBatchSize + i],
                             document |-> b[i], embedding |-> Embedding(b[i]),
                             metadata |-> ing.metadatas[emb.batch * EmbedBatchSize + i]]]
                   ELSE store
    /\ UNCHANGED <<pc, env, next_id, ing, loaded, call, last, restarts>>
    /\ UNCHANGED <<splitVars, dateVars, sanVars>>

\* lines 155-158: the service answers; the batch's vectors are appended
embed_call_ok ==
    /\ pc = "embed"
    /\ emb.batch < NumBatches(emb.texts)
    /\ LET b == Batch(emb.texts, emb.batch) IN
       /\ emb' = [emb EXCEPT !.vectors = @ \o [i \in 1..Len(b) |-> Embedding(b[i])],
                             !.batch = @ + 1, !.attempt = 0]
       /\ emb_log' = Append(emb_log, [batch |-> emb.batch, attempt |-> emb.attempt,
                                      outcome |-> "ok", slept |-> 0])
    /\ UNCHANGED <<pc, env, store, next_id, ing, loaded, call, last, restarts>>
    /\ UNCHANGED <<splitVars, dateVars, sanVars>>

\* lines 159-165, attempt before the last: the service call raises, sleep, retry
embed_call_fails ==
    /\ pc = "embed"
    /\ emb.batch < NumBatches(emb.texts)
    /\ ~IsFinalAttempt(emb.attempt)
    /\ emb_log' = Append(emb_log, [batch |-> emb.batch, attempt |-> emb.attempt,
                                   outcome |-> "fail", slept |-> Backoff(emb.attempt)])
       \* for attempt in range(5): the loop ends without a break after the last
    /\ emb' = IF emb.attempt + 1 < MaxAttempts
              THEN [emb EXCEPT !.attempt = @ + 1]
              ELSE [emb EXCEPT !.batch = @ + 1, !.attempt = 0]
    /\ UNCHANGED <<pc, env, store, next_id, ing, loaded, call, last, restarts>>
    /\ UNCHANGED <<splitVars, dateVars, sanVars>>

\* lines 159-163, last attempt: the service call raises and embed_texts re-raises;
\* nothing is returned. In ingestion the import fails (line 201 of main.py, line
\* 24 of ui/qa.py); in answer() the exception leaves answer (ui/qa.py:247).
embed_raises ==
    /\ pc = "embed"
    /\ emb.batch < NumBatches(emb.texts)
    /\ IsFinalAttempt(emb.attempt)
    /\ emb_log' = Append(emb_log, [batch |-> emb.batch, attempt |-> emb.attempt,
                                   outcome |-> "fail", slept |-> 0])
    /\ emb' = [emb EXCEPT !.status = "raised", !.vectors = <<>>, !.texts = <<>>]
    /\ IF emb.caller = "ingest"
       THEN /\ pc' = "crashed"
            /\ UNCHANGED <<call, last>>
       ELSE /\ pc' = "serving"
            /\ call' = NoCall
            /\ UNCHANGED last
    /\ UNCHANGED <<env, store, next_id, ing, loaded, restarts>>
    /\ UNCHANGED <<splitVars, dateVars, sanVars>>

\* line 167: return vectors, to line 201 (ingestion) or line 207 (retrieval)
embed_returns ==
    /\ pc = "embed"
    /\ emb.batch >= NumBatches(emb.texts)
    /\ emb' = [emb EXCEPT !.status = "returned"]
    /\ emb_log' = <<>>
    /\ pc' = IF emb.caller = "ingest" THEN "ingest_add" ELSE "query"
    /\ UNCHANGED <<env, store, next_id, ing, loaded, call, last, restarts>>
    /\ UNCHANGED <<splitVars, dateVars, sanVars>>

\* lines 202-203: the one bulk collection.add
ingest_add ==
    /\ pc = "ingest_add"
    /\ store' = store \o [i \in 1..Len(ing.all_chunks) |->
                    [id |-> ing.ids[i], document |-> ing.all_chunks[i],
                     embedding |-> emb.vectors[i], metadata |-> ing.metadatas[i]]]
    /\ pc' = "load"
    /\ ing' = NoIngest /\ emb' = NoEmbed
    /\ UNCHANGED <<env, next_id, emb_log, loaded, call, last, restarts>>
    /\ UNCHANGED <<splitVars, dateVars, sanVars>>

\* line 202: collection.add raises; the import fails
ingest_add_raises ==
    /\ pc = "ingest_add"
    /\ pc' = "crashed"
    /\ UNCHANGED <<env, store, next_id, ing, emb, emb_log, loaded, call, last, restarts>>
    /\ UNCHANGED <<splitVars, dateVars, sanVars>>

\* ---- ui/qa.py:27-53: _load_base_system_prompt and _load_brainlift ----
load_prompts ==
    /\ pc = "load"
    /\ loaded' = [base_system |->
                     IF env.persona.exists /\ env.persona.readable
                     THEN env.persona.content ELSE <<>>,
                  brainlift |-> Strip(env.brainlift)]
    /\ pc' = "serving"
    /\ UNCHANGED <<env, store, next_id, ing, emb, emb_log, call, last, restarts>>
    /\ UNCHANGED <<splitVars, dateVars, sanVars>>

\* the process ends (or has died during import) and is started again: the
\* store persists on disk under CHROMA_DIR, everything else is built anew
restart ==
    /\ pc \in {"serving", "crashed"}
    /\ restarts < MaxRestarts
    /\ restarts' = restarts + 1
    /\ pc' = "ingest"
    /\ ing' = NoIngest /\ emb' = NoEmbed /\ emb_log' = <<>>
    /\ loaded' = [base_system |-> <<>>, brainlift |-> <<>>]
    /\ call' = NoCall /\ last' = NoAnswer
    /\ UNCHANGED <<env, store, next_id>>
    /\ UNCHANGED <<splitVars, dateVars, sanVars>>

\* ---- answer(), src/ui/qa.py:242-292, behind chat_with_joe, src/app.py:5-7 ----

\* the questions asked, and the history argument gradio hands to chat_with_joe
\* ("None" stands for Python's None)
Messages == {<<"when", "ships">>, <<"why", "June">>}
HistoryArgs == {"None", << <<"hi", "None">> >>}

\* what the completion provider may return as msg.content[0].text
ProviderOutputs ==
    {<<"**Action:**", "do", "X", "\n", "Here's", "why:", "do", "X">>,
     <<"Joe", "would", "wait.", "\n", "It", "will", "ship", "in", "May", "2024", "(past).">>}

\* app.py:6: [(u or "", a or "") for (u, a) in (history or [])]
OrEmpty(x) == IF x = "None" THEN "" ELSE x
hist_tuples(history) ==
    IF history = "None" THEN <<>>
    ELSE [i \in 1..Len(history) |-> <<OrEmpty(history[i][1]), OrEmpty(history[i][2])>>]

\* ui/qa.py:247: the text answer() hands to retrieve_context
RetrievalQuery(message, history) == message

\* a user message that carries the earlier turns along
UserContentWithHistory(message, history) ==
    IF history = <<>> THEN message ELSE message \o <<history[1][1]>>
\* ui/qa.py:284: the content of the one user message sent to the provider
UserContent(message, history) == message

\* lines 250-252: f"[{src}#{idx}]"
CiteWord(src, idx) ==
    CASE src = "a.txt" /\ idx = 0 -> "[a.txt#0]"
      [] src = "a.txt" /\ idx = 1 -> "[a.txt#1]"
      [] src = "a.txt" /\ idx = 2 -> "[a.txt#2]"
      [] src = "b.md" /\ idx = 0 -> "[b.md#0]"
      [] src = "b.md" /\ idx = 1 -> "[b.md#1]"
      [] OTHER -> "[unknown#-1]"

RECURSIVE JoinWith(_, _)
\* sep.join(parts), each part a run of words
JoinWith(sep, parts) ==
    IF parts = <<>> THEN <<>>
    ELSE IF Len(parts) = 1 THEN parts[1]
    ELSE parts[1] \o <<sep>> \o JoinWith(sep, Tail(parts))

\* a stand-in for the cosine distance of the index: the number of words of the
\* query that the document lacks
Range(f) == {f[i] : i \in DOMAIN f}
Dist(qv, dv) == Cardinality(Range(qv[2]) \ Range(dv[2]))

RECURSIVE Nearest(_, _, _)
\* collection.query(n_results=k): the k nearest records, nearest first, equal
\* distances in index order
Nearest(S, qv, k) ==
    IF k = 0 \/ S = {} THEN <<>>
    ELSE LET best == CHOOSE i \in S : \A j \in S :
                        \/ Dist(qv, store[i].embedding) < Dist(qv, store[j].embedding)
                        \/ /\ Dist(qv, store[i].embedding) = Dist(qv, store[j].embedding)
                           /\ i <= j
         IN  <<store[best]>> \o Nearest(S \ {best}, qv, k - 1)

\* _normalize_dates_in_context as a function: lines 82-178 run to the return
NormalizeDates(ws, td) ==
    LET r1 == ReSub(RuleOrder[1], ws, 1, td)
        r2 == ReSub(RuleOrder[2], r1, 1, td)
        r3 == ReSub(RuleOrder[3], r2, 1, td)
        r4 == ReSub(RuleOrder[4], r3, 1, td)
    IN  SubPair("next", "month", nxt_abs(td),
                SubPair("this", "month", cur_abs(td), r4, 1), 1)

\* _now_block, lines 181-193
IsoWord(td) ==
    CASE td = <<2024, 6, 10>> -> "2024-06-10"
      [] td = <<2024, 6, 28>> -> "2024-06-28"
      [] OTHER -> "2024-06-29"
_now_block(td) == <<"DATE CONTEXT: Today is", IsoWord(td)>>

\* DEFAULT_JOE_SYSTEM, src/main.py:215-234
DEFAULT_JOE_SYSTEM == <<"You are not a generic AI. You ARE Joe.", " ">>

\* lines 248-253: the cited blocks, joined by a blank line
RetrievalContext(results) ==
    JoinWith("\n\n", [i \in 1..Len(results) |->
        <<CiteWord(results[i].metadata.source, results[i].metadata.chunk_index)>>
            \o results[i].document])

\* the persona section with the fallback of main.py:272
PersonaPartsWithFallback(base_system) ==
    IF Strip(base_system) # <<>> THEN <<Strip(base_system)>> ELSE <<Strip(DEFAULT_JOE_SYSTEM)>>
\* lines 262-263: the persona section
PersonaParts(base_system) ==
    IF base_system # <<>> THEN <<Strip(base_system)>> ELSE <<>>

\* lines 266-268: the full BrainLift, date-normalized
BrainliftParts(brainlift, td) ==
    IF brainlift # <<>>
    THEN << <<"---\nBRAINLIFT (full):\n">> \o NormalizeDates(brainlift, td) >>
    ELSE <<>>

\* lines 271-275: the retrieved context and the citation instruction
ContextPart(results, td) ==
    <<"---\nCONTEXT (top matches from transcripts/brainlift):\n">>
        \o NormalizeDates(RetrievalContext(results), td)
        \o <<"\n---\nUse only what is relevant. Cite [source#chunk] when you pull facts.">>

\* lines 256-277: parts, in order
PromptParts(results, td) ==
    <<_now_block(td)>> \o PersonaParts(loaded.base_system)
        \o BrainliftParts(loaded.brainlift, td) \o <<ContextPart(results, td)>>

\* line 277: system_prompt_final = "\n\n".join(parts)
system_prompt_final(results, td) == JoinWith("\n\n", PromptParts(results, td))

\* ---- the response sanitizer, src/ui/qa.py:195-239 ----

RECURSIVE SplitLines(_)
\* str.splitlines(), "\n" being the line break
SplitLines(ws) ==
    IF ws = <<>> THEN <<>>
    ELSE IF \E i \in 1..Len(ws) : ws[i] = "\n"
         THEN LET i == CHOOSE i \in 1..Len(ws) :
                          ws[i] = "\n" /\ \A j \in 1..(i - 1) : ws[j] # "\n"
              IN  <<SubSeq(ws, 1, i - 1)>> \o SplitLines(SubSeq(ws, i + 1, Len(ws)))
         ELSE <<ws>>

\* _META_PATTERNS, lines 197-206, matched against line.strip() with
\* re.IGNORECASE. The label patterns (lines 200-203) are \*\*?<Label>\*\*?:?.*
\* and so want one or two asterisks on BOTH sides of the label, the colon only
\* after them; the heading pattern (line 205) wants two or more "#" and then
\* whitespace. MetaHeadWords are the first words of the model that a label
\* pattern matches.
MetaHeadWords ==
    {"**Action**", "**Action**:", "*Action*", "**ACTION**",
     "**Application**", "**Application**:", "*Application*",
     "**Risks/Countermoves**", "**Risks/Countermoves**:", "**RisksCountermoves**"}
IsMetaLine(l) ==
    \/ l \in {<<"I'm", "speaking", "in", "my", "own", "voice.">>,
              <<"I'm", "speaking", "in", "my", "own", "voice">>,
              <<"I", "am", "speaking", "in", "my", "own", "voice.">>,
              <<"I", "am", "speaking", "in", "my", "own", "voice">>}
    \/ Len(l) >= 1 /\ l[1] \in MetaHeadWords
    \/ Len(l) >= 2 /\ l[1] \in {"**SPOV", "*SPOV"} /\ l[2] \in {"anchor**", "anchor**:", "anchor*"}
    \/ Len(l) >= 2 /\ l[1] = "Output" /\ l[2] \in {"Shape", "Shape:"}
    \/ Len(l) >= 2 /\ l[1] \in {"##", "###"}

RECURSIVE KeepLines(_)
\* lines 210-214
KeepLines(lines) ==
    IF lines = <<>> THEN <<>>
    ELSE IF IsMetaLine(Strip(lines[1])) THEN KeepLines(Tail(lines))
    ELSE <<lines[1]>> \o KeepLines(Tail(lines))

RECURSIVE LStrip(_)
\* the \s* after the preamble
LStrip(ws) == IF ws # <<>> /\ IsSpace(ws[1]) THEN LStrip(Tail(ws)) ELSE ws

\* _strip_meta_labels, lines 208-217
_strip_meta_labels(ws) ==
    LET out == Strip(JoinWith("\n", KeepLines(SplitLines(ws))))
    IN  IF Len(out) >= 2 /\ Lower(out[1]) \in {"here's", "heres"} /\ out[2] = "why:"
        THEN LStrip(SubSeq(out, 3, Len(out)))
        ELSE out

\* the index of the end of the line that word i is on
RECURSIVE LineEnd(_, _)
LineEnd(ws, i) == IF i >= Len(ws) \/ ws[i + 1] = "\n" THEN i ELSE LineEnd(ws, i + 1)

\* the index of the first word after i that is not whitespace (Len + 1: none)
RECURSIVE NextWord(_, _)
NextWord(ws, i) ==
    IF i + 1 > Len(ws) THEN Len(ws) + 1
    ELSE IF IsSpace(ws[i + 1]) THEN NextWord(ws, i + 1) ELSE i + 1

RECURSIVE FirstPersonFrom(_, _)
\* _enforce_first_person, lines 220-222:
\* re.sub(r"\b(J|j)oe\s+(would|does|thinks|believes)\b.*", "", text)
FirstPersonFrom(ws, i) ==
    IF i > Len(ws) THEN <<>>
    ELSE LET j == NextWord(ws, i)
         IN  IF /\ ws[i] \in {"Joe", "joe"}
                /\ j <= Len(ws)
                /\ ws[j] \in {"would", "does", "thinks", "believes"}
             THEN FirstPersonFrom(ws, LineEnd(ws, j) + 1)
             ELSE <<ws[i]>> \o FirstPersonFrom(ws, i + 1)
_enforce_first_person(ws) == FirstPersonFrom(ws, 1)

RECURSIVE SubPhrase(_, _, _, _)
\* re.sub(r"\b<phrase>\b", repl, line, flags=re.IGNORECASE)
SubPhrase(pat, repl, ws, i) ==
    IF i > Len(ws) THEN <<>>
    ELSE IF /\ i + Len(pat) - 1 <= Len(ws)
            /\ \A k \in 1..Len(pat) : Lower(ws[i + k - 1]) = pat[k]
         THEN repl \o SubPhrase(pat, repl, ws, i + Len(pat))
         ELSE <<ws[i]>> \o SubPhrase(pat, repl, ws, i + 1)

\* every line taken as carrying the marker
MarkerIgnored(line) == Len(line) >= 0
\* line 233: "(past)" in line
HasPastMarker(line) == \E i \in 1..Len(line) : line[i] \in {"(past)", "(past).", "(past),"}

\* lines 233-238, one line
FixLine(line) ==
    IF HasPastMarker(line)
    THEN LET a == SubPhrase(<<"will", "ship">>, <<"was", "planned", "to", "ship">>, line, 1)
             b == SubPhrase(<<"will">>, <<"was", "going", "to">>, a, 1)
             c == SubPhrase(<<"ships">>, <<"was", "planned", "to", "ship">>, b, 1)
         IN  SubPhrase(<<"is", "going", "to">>, <<"was", "going", "to">>, c, 1)
    ELSE line

\* _fix_future_tense_with_past_dates, lines 225-239
_fix_future_tense_with_past_dates(ws) ==
    LET lines == SplitLines(ws)
    IN  JoinWith("\n", [i \in 1..Len(lines) |-> FixLine(lines[i])])

\* lines 289-291
Sanitize(raw_text) ==
    _fix_future_tense_with_past_dates(_enforce_first_person(_strip_meta_labels(raw_text)))

(***************************************************************************)
(* The post-processing of answer() on its own (src/ui/qa.py:286-292): the  *)
(* provider's output is drawn from the texts of up to MaxLines lines.      *)
(***************************************************************************)
MaxLines == 3          \* most lines in a provider output

\* the lines a provider output is made of (" " is a run of whitespace)
SanLines ==
    {<<"**Action:**", "do", "X">>,
     <<"**Action**:", "do", "X">>,
     <<"Application:", "scope">>,
     <<"Output", "Shape:", "list">>,
     <<" ", "##", "Plan">>,
     <<"#", "Plan">>,
     <<"Here's", "why:", "do", "X">>,
     <<"do", "X">>,
     <<"It", "will", "ship", "in", "May", "2024", "(past).">>,
     <<"It", "will", "ship", "soon.">>,
     <<"It", "Will", "ship", "and", "will", "grow", "(past)">>,
     <<"It", "ships", "(past)", "and", "is", "going", "to", "grow">>,
     <<"(past)", "will", "ship">>,
     <<"Joe", "would", "wait.">>,
     <<>>}

RECURSIVE LineSeqs(_)
LineSeqs(k) ==
    IF k = 0 THEN {<<>>}
    ELSE LET shorter == LineSeqs(k - 1)
         IN  shorter \cup {Append(s, l) : s \in {t \in shorter : Len(t) = k - 1},
                                          l \in SanLines}

\* line 286: raw_text = msg.content[0].text
SanInit ==
    /\ san_raw \in {JoinWith("\n", ls) : ls \in LineSeqs(MaxLines)}
    /\ san_text = san_raw
    /\ san_prev = <<>>
    /\ san_pc = "strip_meta"

\* line 289: text = _strip_meta_labels(raw_text)
san_strip_meta ==
    /\ san_pc = "strip_meta"
    /\ san_prev' = san_text
    /\ san_text' = _strip_meta_labels(san_text)
    /\ san_pc' = "first_person"
    /\ UNCHANGED san_raw
    /\ UNCHANGED <<splitVars, dateVars, sysVars>>

\* line 290: text = _enforce_first_person(text)
san_first_person ==
    /\ san_pc = "first_person"
    /\ san_prev' = san_text
    /\ san_text' = _enforce_first_person(san_text)
    /\ san_pc' = "fix_tense"
    /\ UNCHANGED san_raw
    /\ UNCHANGED <<splitVars, dateVars, sysVars>>

\* lines 291-292: text = _fix_future_tense_with_past_dates(text); return text
san_fix_tense ==
    /\ san_pc = "fix_tense"
    /\ san_prev' = san_text
    /\ san_text' = _fix_future_tense_with_past_dates(san_text)
    /\ san_pc' = "returned"
    /\ UNCHANGED san_raw
    /\ UNCHANGED <<splitVars, dateVars, sysVars>>

InitSanitize == SanInit /\ SplitIdle /\ DateIdle /\ SysIdle
NextSanitize == san_strip_meta \/ san_first_person \/ san_fix_tense
SpecSanitize == InitSanitize /\ [][NextSanitize]_vars

(***************************************************************************)
(* Sanitizer claims.                                                       *)
(***************************************************************************)
\* a header line as the claim lists them: a label, bolded or not, with its
\* colon inside or outside the bold; "Output Shape"; a markdown heading
ClaimedHeaderLine(l) ==
    \/ Len(l) >= 1 /\ l[1] \in MetaHeadWords \cup
          {"**Action:**", "Action:", "**Application:**", "Application:",
           "**Risks/Countermoves:**", "Risks/Countermoves:"}
    \/ Len(l) >= 2 /\ l[1] = "Output" /\ l[2] \in {"Shape", "Shape:"}
    \/ Len(l) >= 2 /\ l[1] \in {"#", "##", "###"}

StartsWithPreamble(ws) ==
    Len(ws) >= 2 /\ Lower(ws[1]) \in {"here's", "heres"} /\ ws[2] = "why:"

\* C11 (as claimed): after meta-label stripping the response '**Action:** do X'
\* / "Here's why: do X" is exactly 'do X'; no line of the result is a header
\* line ('Application:', 'Action:', 'Risks/Countermoves:', 'Output Shape:', a
\* markdown heading), and the result does not start with "Here's why:".
C11_MetaLabelsStripped ==
    san_pc = "first_person" =>
        /\ san_raw = <<"**Action:**", "do", "X", "\n", "Here's", "why:", "do", "X">>
              => san_text = <<"do", "X">>
        /\ \A i \in 1..Len(SplitLines(san_text)) :
              ~ClaimedHeaderLine(Strip(SplitLines(san_text)[i]))
        /\ ~StartsWithPreamble(san_text)

\* the line holds "(past)"
CarriesMarker(l) == \E i \in 1..Len(l) : l[i] \in {"(past)", "(past).", "(past),"}

HasWillShip(l) ==
    \E i \in 1..(Len(l) - 1) : Lower(l[i]) = "will" /\ Lower(l[i + 1]) = "ship"

RECURSIVE WillShipOnly(_, _)
\* the line with each "will ship" replaced and every other word kept
WillShipOnly(l, i) ==
    IF i > Len(l) THEN <<>>
    ELSE IF i + 1 <= Len(l) /\ Lower(l[i]) = "will" /\ Lower(l[i + 1]) = "ship"
         THEN <<"was", "planned", "to", "ship">> \o WillShipOnly(l, i + 2)
         ELSE <<l[i]>> \o WillShipOnly(l, i + 1)

RECURSIVE PastPlan(_, _)
\* the line with every forward-looking phrase replaced by its past-plan
\* phrase, read once from left to right, and every other word kept
PastPlan(l, i) ==
    IF i > Len(l) THEN <<>>
    ELSE IF i + 1 <= Len(l) /\ Lower(l[i]) = "will" /\ Lower(l[i + 1]) = "ship"
         THEN <<"was", "planned", "to", "ship">> \o PastPlan(l, i + 2)
    ELSE IF Lower(l[i]) = "will"
         THEN <<"was", "going", "to">> \o PastPlan(l, i + 1)
    ELSE IF Lower(l[i]) = "ships"
         THEN <<"was", "planned", "to", "ship">> \o PastPlan(l, i + 1)
    ELSE IF /\ i + 2 <= Len(l) /\ Lower(l[i]) = "is"
            /\ Lower(l[i + 1]) = "going" /\ Lower(l[i + 2]) = "to"
         THEN <<"was", "going", "to">> \o PastPlan(l, i + 3)
    ELSE <<l[i]>> \o PastPlan(l, i + 1)

RECURSIVE DropTrailingBreaks(_)
DropTrailingBreaks(ws) ==
    IF ws # <<>> /\ ws[Len(ws)] = "\n"
    THEN DropTrailingBreaks(SubSeq(ws, 1, Len(ws) - 1))
    ELSE ws

\* C12 (as claimed): the tense pass returns the lines of its input, joined
\* again, where in a line that contains "(past)" each "will ship" has become
\* "was planned to ship" and the rest of the line is kept verbatim, and a
\* line without "(past)" is unchanged; a second application changes nothing.
C12_TenseCorrectionOriginal ==
    san_pc = "returned" =>
        LET before == SplitLines(san_prev) IN
        /\ san_text = JoinWith("\n", [i \in 1..Len(before) |->
                          IF CarriesMarker(before[i])
                          THEN WillShipOnly(before[i], 1)
                          ELSE before[i]])
        /\ _fix_future_tense_with_past_dates(san_text) = san_text

\* C12 (amended): the tense pass returns the lines of its input, joined again
\* by single line breaks, where in a line that contains "(past)" each
\* "will ship" has become "was planned to ship", each other "will"
\* "was going to", each "ships" "was planned to ship" and each "is going to"
\* "was going to" (in any letter case), the rest of the line kept verbatim,
\* and a line without "(past)" is unchanged; a second application changes no
\* line: it changes nothing when the text does not end in a line break, and
\* otherwise only drops trailing line breaks.
C12_TenseCorrection ==
    san_pc = "returned" =>
        LET before == SplitLines(san_prev)
            again == _fix_future_tense_with_past_dates(san_text)
        IN  /\ san_text = JoinWith("\n", [i \in 1..Len(before) |->
                              IF CarriesMarker(before[i])
                              THEN PastPlan(before[i], 1)
                              ELSE before[i]])
            /\ DropTrailingBreaks(again) = DropTrailingBreaks(san_text)
            /\ DropTrailingBreaks(san_text) = san_text => again = san_text

C12_Witness ==
    /\ san_pc = "returned"
    /\ san_text # san_prev
    /\ \E i, j \in 1..Len(SplitLines(san_prev)) :
          /\ CarriesMarker(SplitLines(san_prev)[i]) /\ HasWillShip(SplitLines(san_prev)[i])
          /\ ~CarriesMarker(SplitLines(san_prev)[j]) /\ HasWillShip(SplitLines(san_prev)[j])
          /\ SplitLines(san_text)[j] = SplitLines(san_prev)[j]

\* ---- answer(), the steps ----

\* what _today_dt finds when it builds the zone, ui/qa.py:5-8 and 57-58, read
\* anew at every call: ZoneInfo(tzname) resolves; the zoneinfo module could not
\* be imported (ZoneInfo is None); ZoneInfo(tzname) raises because the name
\* in APP_TZ or the time-zone data is missing
TzStates == {"resolved", "no_zoneinfo", "unresolvable"}

\* _today_dt, lines 56-59: the zone it uses ("raises": it does not return)
_today_dt(tz) ==
    CASE tz = "resolved" -> "zone"
      [] tz = "no_zoneinfo" -> "utc"
      [] OTHER -> "raises"

\* lines 243-244: claude_client is None
answer_unconfigured ==
    /\ pc = "serving"
    /\ env.provider # "anthropic"
    /\ \E m \in Messages, h \in HistoryArgs :
          last' = [kind |-> "unconfigured", message |-> m, history |-> hist_tuples(h),
                   text |-> <<"Backend not configured for Anthropic. Set PROVIDER=anthropic in .env.">>]
    /\ UNCHANGED <<pc, env, store, next_id, ing, emb, emb_log, loaded, call, restarts>>
    /\ UNCHANGED <<splitVars, dateVars, sanVars>>

\* app.py:5-7 and ui/qa.py:242-247: the call arrives and enters
\* retrieve_context, whose first step is embed_texts([query]) (main.py:207)
answer_begin ==
    /\ pc = "serving"
    /\ env.provider = "anthropic"
    /\ \E m \in Messages, h \in HistoryArgs :
          /\ call' = [message |-> m, history |-> hist_tuples(h), results |-> <<>>]
          /\ emb' = [caller |-> "query", texts |-> <<RetrievalQuery(m, hist_tuples(h))>>,
                     batch |-> 0, attempt |-> 0, vectors |-> <<>>, status |-> "running"]
    /\ emb_log' = <<>>
    /\ pc' = "embed"
    /\ UNCHANGED <<env, store, next_id, ing, loaded, last, restarts>>
    /\ UNCHANGED <<splitVars, dateVars, sanVars>>

\* retrieval that also stores the query in the collection
retrieve_context_caching ==
    /\ pc = "query"
    /\ call' = [call EXCEPT !.results = Nearest(DOMAIN store, emb.vectors[1], TopK)]
    /\ store' = Append(store, [id |-> next_id + 1, document |-> emb.texts[1],
                               embedding |-> emb.vectors[1],
                               metadata |-> [source |-> "query", chunk_index |-> 0]])
    /\ next_id' = next_id + 1
    /\ pc' = "generate"
    /\ UNCHANGED <<env, ing, emb, emb_log, loaded, last, restarts>>
    /\ UNCHANGED <<splitVars, dateVars, sanVars>>

\* main.py:207-211: q_emb = embed_texts([query])[0]; collection.query
retrieve_context ==
    /\ pc = "query"
    /\ call' = [call EXCEPT !.results = Nearest(DOMAIN store, emb.vectors[1], TopK)]
    /\ pc' = "generate"
    /\ UNCHANGED <<env, store, next_id, ing, emb, emb_log, loaded, last, restarts>>
    /\ UNCHANGED <<splitVars, dateVars, sanVars>>

\* main.py:208: collection.query raises; the exception leaves answer()
retrieve_context_raises ==
    /\ pc = "query"
    /\ call' = NoCall
    /\ emb' = NoEmbed
    /\ pc' = "serving"
    /\ UNCHANGED <<env, store, next_id, ing, emb_log, loaded, last, restarts>>
    /\ UNCHANGED <<splitVars, dateVars, sanVars>>

\* ui/qa.py:248-292: the prompt is built and sent, the provider answers, the
\* output is sanitized and returned
answer_generate ==
    /\ pc = "generate"
    /\ \E tz \in TzStates : _today_dt(tz) # "raises"
    /\ \E raw_text \in ProviderOutputs :
          last' = [kind |-> "text", message |-> call.message, history |-> call.history,
                   query |-> emb.texts[1],
                   system |-> system_prompt_final(call.results, env.date),
                   user |-> UserContent(call.message, call.history),
                   raw |-> raw_text, text |-> Sanitize(raw_text),
                   \* the history of the call before, if it asked the same
                   after |-> IF last.kind = "text" /\ last.message = call.message
                             THEN <<last.history>> ELSE <<>>]
    /\ call' = NoCall
    /\ emb' = NoEmbed
    /\ pc' = "serving"
    /\ UNCHANGED <<env, store, next_id, ing, emb_log, loaded, restarts>>
    /\ UNCHANGED <<splitVars, dateVars, sanVars>>

\* ui/qa.py:280-285: claude_client.messages.create raises; the exception leaves
\* answer()
answer_generate_raises ==
    /\ pc = "generate"
    /\ call' = NoCall
    /\ emb' = NoEmbed
    /\ pc' = "serving"
    /\ UNCHANGED <<env, store, next_id, ing, emb_log, loaded, last, restarts>>
    /\ UNCHANGED <<splitVars, dateVars, sanVars>>

\* ui/qa.py:254 and 82: _normalize_dates_in_context calls _today_dt outside any
\* try, before the prompt is built; when ZoneInfo raises, the exception leaves
\* answer() and no text is returned
answer_normalize_raises ==
    /\ pc = "generate"
    /\ \E tz \in TzStates : _today_dt(tz) = "raises"
    /\ last' = [kind |-> "raised", message |-> call.message, history |-> call.history,
                raised_in |-> "_normalize_dates_in_context"]
    /\ call' = NoCall
    /\ emb' = NoEmbed
    /\ pc' = "serving"
    /\ UNCHANGED <<env, store, next_id, ing, emb_log, loaded, restarts>>
    /\ UNCHANGED <<splitVars, dateVars, sanVars>>

Init == InitSys /\ SplitIdle /\ DateIdle /\ SanIdle
Next ==
    \/ ingest_count \/ ingest_count_raises \/ ingest_files \/ ingest_files_raises
    \/ embed_call_ok \/ embed_call_fails \/ embed_raises \/ embed_returns
    \/ ingest_add \/ ingest_add_raises \/ load_prompts \/ restart
    \/ answer_unconfigured \/ answer_begin \/ retrieve_context \/ retrieve_context_raises
    \/ answer_generate \/ answer_generate_raises \/ answer_normalize_raises
Spec == Init /\ [][Next]_vars

(***************************************************************************)
(* Claims about the process.                                               *)
(***************************************************************************)
IngestionAtWork ==
    \/ pc = "ingest_add"
    \/ pc = "embed" /\ emb.caller = "ingest"

\* C1 (as claimed): on a store that holds chunks, ingest is a no-op: it does
\* no chunking, no embedding call and no write, and the stored chunks are the
\* same after the call as before, however often ingest is called.
C1_IngestNoOpOnPopulated ==
    Len(store) > 0 =>
        /\ ~IngestionAtWork
        /\ ing = NoIngest
        /\ Len(store) <= Len(ChunksOfFiles(env.docs, 1))

\* the steps of an answer() call
AnswerAtWork ==
    \/ pc \in {"serving", "query", "generate"}
    \/ pc = "embed" /\ emb.caller = "query"

\* C2: once startup ingestion has finished the index is read-only: no step of
\* an answer() call, returning or raising, changes the store; the only step
\* that ever changes it is the bulk add of startup ingestion.
C2_ReadOnlyAfterIngestion ==
    [][/\ AnswerAtWork => store' = store
       /\ store' # store => (pc = "ingest_add" /\ pc' = "load")]_vars

C2_Witness ==
    /\ pc = "serving"
    /\ last.kind = "text"
    /\ Len(store) > 0
    /\ emb.status = "raised"

IsPrefix(p, q) == Len(p) <= Len(q) /\ SubSeq(q, 1, Len(p)) = p

\* C3 (as claimed): every system payload answer() sends starts with the
\* current-time statement followed by the persona section - the content of
\* prompt/system.md, or the built-in fallback persona when the file is absent,
\* empty or unreadable - and the retrieved context comes after it.
C3_PersonaAlwaysPresent ==
    last.kind = "text" =>
        LET head == _now_block(env.date) \o <<"\n\n">>
                        \o PersonaPartsWithFallback(loaded.base_system)[1] \o <<"\n\n">>
        IN  /\ IsPrefix(head, last.system)
            /\ \E i \in (Len(head) + 1)..Len(last.system) :
                  last.system[i] = "---\nCONTEXT (top matches from transcripts/brainlift):\n"

\* C4: answer() does not depend on history: a call that asks what the call
\* before it asked issues the same retrieval query and sends the same system
\* payload and user message, whatever the two histories are, and returns the
\* same text when the provider returns the same output.
C4_HistoryIndependent ==
    [][(/\ last.kind = "text" /\ last'.kind = "text"
        /\ last'.message = last.message)
       => /\ last'.query = last.query
          /\ last'.system = last.system
          /\ last'.user = last.user
          /\ last'.raw = last.raw => last'.text = last.text]_vars

C4_Witness ==
    /\ last.kind = "text"
    /\ last.after # <<>>
    /\ last.after[1] # last.history
    /\ Len(store) > 0

\* C5: within one embed_texts call every batch is sent to the service at most
\* 5 times, a batch that succeeded is never sent again, the sleep after failed
\* attempt k (k = 0..3) is 2^k seconds, and the 5th failure on a batch makes
\* embed_texts raise: no vectors are returned, and no later batch is tried.
C5_BoundedRetry ==
    /\ \A i \in 1..Len(emb_log) :
          LET e == emb_log[i] IN
          /\ e.attempt = Cardinality({j \in 1..(i - 1) : emb_log[j].batch = e.batch})
          /\ e.attempt < 5
          /\ \A j \in 1..(i - 1) :
                /\ emb_log[j].batch <= e.batch
                /\ emb_log[j].batch = e.batch => emb_log[j].outcome = "fail"
          /\ e.outcome = "ok" => e.slept = 0
          /\ (e.outcome = "fail" /\ e.attempt <= 3) => e.slept = 2 ^ e.attempt
          /\ (e.outcome = "fail" /\ e.attempt = 4) =>
                /\ i = Len(emb_log)
                /\ emb.status = "raised"
    /\ emb.status = "raised" =>
          /\ emb.vectors = <<>>
          /\ emb_log # <<>>
          /\ emb_log[Len(emb_log)].outcome = "fail"
          /\ emb_log[Len(emb_log)].attempt = 4
          /\ pc \in {"crashed", "serving"}
    /\ pc \in {"ingest_add", "query"} => Len(emb.vectors) = Len(emb.texts)

C5_Witness ==
    /\ emb.status = "raised"
    /\ \E i, j \in 1..Len(emb_log) :
          /\ emb_log[i].batch = 0 /\ emb_log[i].outcome = "ok" /\ emb_log[i].attempt > 0
          /\ emb_log[j].batch = 1

\* the steps of ingest_docs_to_chroma up to, not including, the bulk add
IngestBeforeAdd ==
    \/ pc \in {"ingest", "ingest_files"}
    \/ pc = "embed" /\ emb.caller = "ingest"

\* the records the bulk add writes: one per chunk of every file, in order
AllRecords ==
    LET cs == ChunksOfFiles(env.docs, 1)
    IN  [i \in 1..Len(cs) |->
            [id |-> ing.ids[i], document |-> cs[i].doc, embedding |-> Embedding(cs[i].doc),
             metadata |-> [source |-> cs[i].source, chunk_index |-> cs[i].chunk_index]]]

\* C14: ingestion writes all or nothing: the store changes only in the one
\* bulk add of an ingest call, made after embed_texts has returned a vector
\* for every chunk of every file, and that add writes a record for every
\* chunk; every other step of ingest, failing or not, leaves the store as it
\* was, so an ingest that aborts before the add leaves the store as it found
\* it (with count 0 where it had read count 0), never with a subset written.
C14_AllOrNothing ==
    [][/\ IngestBeforeAdd => store' = store
       /\ store' # store =>
             /\ pc = "ingest_add" /\ pc' = "load"
             /\ emb.status = "returned"
             /\ Len(emb.vectors) = Len(ChunksOfFiles(env.docs, 1))
             /\ store' = store \o AllRecords
       /\ (pc' = "crashed" /\ ing.existing = <<0>>) => store' = <<>>]_vars

C14_Witness ==
    /\ pc = "crashed"
    /\ emb.caller = "ingest" /\ emb.status = "raised"
    /\ \E i \in 1..Len(emb_log) : emb_log[i].outcome = "ok"
    /\ ing.existing = <<0>>
    /\ Len(ing.all_chunks) > EmbedBatchSize
    /\ store = <<>>

\* C15 (as claimed): when the count check at the start of ingest fails, ingest
\* fails without chunking, embedding or writing anything: ingest never holds
\* chunks, calls the embedder or reaches the bulk add with a count it could
\* not read, and the store never holds more than one copy of the chunks.
C15_UnreadableStoreStops ==
    /\ (pc # "ingest" /\ ing.existing = <<>>) =>
          /\ ing.all_chunks = <<>>
          /\ ~IngestionAtWork
    /\ Len(store) <= Len(ChunksOfFiles(env.docs, 1))

\* the post-processing passes of answer()
PostProcessingPasses ==
    {"_normalize_dates_in_context", "_strip_meta_labels", "_enforce_first_person",
     "_fix_future_tense_with_past_dates"}

\* C13 (as claimed): date normalization and sanitization never raise: no
\* answer() call whose retrieval succeeded ends with an exception raised in a
\* post-processing pass; with the time zone unresolvable the pass is skipped
\* (today falling back to UTC) and answer() still returns text.
C13_PostProcessingNeverRaises ==
    last.kind = "raised" => last.raised_in \notin PostProcessingPasses

====
